---------------------------- MODULE Spec2Model ----------------------------
(***************************************************************************)
(* Rock-Paper-Scissors-Plus referee: the round engines of                  *)
(* game_referee_v2.py (update_game_state_tool over a GameState dict) and   *)
(* game_referee.py (GameEngine.resolve_round over the engine object).      *)
(*                                                                         *)
(* Python strings that carry user text are modelled as sequences of        *)
(* one-character strings, so that lower() and strip() are computed.        *)
(***************************************************************************)
EXTENDS Naturals, Integers, Sequences, FiniteSets, TLC

VARIABLES
    program,    \* which script runs: "game_referee_v2" or "game_referee"
    state,      \* v2: the GameState dict the caller holds (model_dump of it)
    v2_input,   \* v2: user_input argument of the latest update_game_state_tool call
    v2_outcome, \* v2: "none" | "returned" | "raised" for the latest call
    v2_calls,   \* v2: number of update_game_state_tool calls made
    v2_bombs,   \* v2: rounds resolved with a bomb so far, per player
    engine,     \* v1: the GameEngine object's fields
    v1_input,   \* v1: user_move argument of the latest resolve_round call
    v1_result,  \* v1: the dict returned by the latest resolve_round call
    v1_calls,   \* v1: number of resolve_round calls made
    v1_bombs,   \* v1: rounds resolved with a bomb so far, per player
    v2_played,  \* v2: rounds played (not wasted) so far
    v1_played,  \* v1: rounds played (not wasted) so far
    run_pc,     \* run_game: "off" | "loop" | "done" | "crashed"
    run_moves,  \* run_game: non-empty move submissions so far
    run_changes,\* run_game: assignments to state during the latest submission
    run_summary,\* run_game: the winner line of the GAME OVER summary, "" before it
    sg_pc,      \* start_game: "off" | "connect" | "opening" | "loop" | "retry" | "returned" | "done"
    sg_attempt, \* start_game: attempt, the index of the opening retry loop
    sg_sends,   \* start_game: chat.send_message("Start the game.") calls so far
    sg_opening  \* start_game: how the latest opening send ended, "none" before it

v2vars == <<program, state, v2_input, v2_outcome, v2_calls, v2_bombs>>
v1vars == <<engine, v1_input, v1_result, v1_calls, v1_bombs>>
runvars == <<run_pc, run_moves, run_changes, run_summary>>
startvars == <<sg_pc, sg_attempt, sg_sends, sg_opening>>
vars == <<program, state, v2_input, v2_outcome, v2_calls, v2_bombs,
          engine, v1_input, v1_result, v1_calls, v1_bombs,
          v2_played, v1_played, run_pc, run_moves, run_changes, run_summary,
          sg_pc, sg_attempt, sg_sends, sg_opening>>

\* Calls made to each engine in one behaviour (a cap on the call counters).
MaxCalls == 5

-----------------------------------------------------------------------------
(* Strings *)

UpperChars == <<"A","B","C","D","E","F","G","H","I","J","K","L","M",
                "N","O","P","Q","R","S","T","U","V","W","X","Y","Z">>
LowerChars == <<"a","b","c","d","e","f","g","h","i","j","k","l","m",
                "n","o","p","q","r","s","t","u","v","w","x","y","z">>
Whitespace == {" ", "\t", "\n"}

\* str.lower() on one character
LowerChar(c) ==
    IF \E i \in 1..Len(UpperChars) : UpperChars[i] = c
    THEN LowerChars[CHOOSE i \in 1..Len(UpperChars) : UpperChars[i] = c]
    ELSE c

\* str.lower()
str_lower(s) == IF s = <<>> THEN <<>> ELSE [i \in 1..Len(s) |-> LowerChar(s[i])]

RECURSIVE str_lstrip(_)
str_lstrip(s) ==
    IF s = <<>> THEN <<>>
    ELSE IF Head(s) \in Whitespace THEN str_lstrip(Tail(s)) ELSE s

RECURSIVE str_rstrip(_)
str_rstrip(s) ==
    IF s = <<>> THEN <<>>
    ELSE IF s[Len(s)] \in Whitespace THEN str_rstrip(SubSeq(s, 1, Len(s) - 1)) ELSE s

\* str.strip()
str_strip(s) == str_rstrip(str_lstrip(s))

EmptyStr == <<>>
rock     == <<"r","o","c","k">>
paper    == <<"p","a","p","e","r">>
scissors == <<"s","c","i","s","s","o","r","s">>
bomb     == <<"b","o","m","b">>

\* The raw texts a user submits in the model: the four moves, spellings of them
\* with other case and surrounding whitespace, and texts that are no move.
RawInputs ==
    { rock, paper, scissors, bomb,
      <<" ","R","o","c","k">>,
      <<"P","A","P","E","R","\n">>,
      <<"B","o","m","b"," ">>,
      <<"\t","b","o","m","b">>,
      <<"l","i","z","a","r","d">>,
      <<"r","o"," ","c","k">>,
      <<" ">>,
      EmptyStr }

-----------------------------------------------------------------------------
(* game_referee_v2.py: state model and pure game logic *)

VALID_MOVES == {rock, paper, scissors, bomb}

\* random.choice(["rock", "paper", "scissors"]) draws from this list
RandomMoves == {rock, paper, scissors}

\* GameState(): the field defaults
GameStateDefault ==
    [ round_number   |-> 1,
      user_score     |-> 0,
      bot_score      |-> 0,
      user_bomb_used |-> FALSE,
      bot_bomb_used  |-> FALSE,
      game_active    |-> TRUE,
      last_user_move |-> EmptyStr,
      last_bot_move  |-> EmptyStr,
      last_result    |-> [text |-> "", arg |-> EmptyStr] ]

\* Mutant of GameStateValidates: round_number has no upper limit
GameStateValidates_no_upper(d) ==
    /\ d.round_number >= 1
    /\ d.user_score >= 0
    /\ d.bot_score >= 0

\* Mutant of GameStateValidates: round_number le=4 instead of le=3
GameStateValidates_le4(d) ==
    /\ d.round_number >= 1
    /\ d.round_number <= 4
    /\ d.user_score >= 0
    /\ d.bot_score >= 0

\* GameState(**d): the Field constraints checked on construction
\* (round_number ge=1 le=3, scores ge=0); assignment is not validated.
GameStateValidates(d) ==
    /\ d.round_number >= 1
    /\ d.round_number <= 3
    /\ d.user_score >= 0
    /\ d.bot_score >= 0

\* GameState(**d): the model built from a dict, field by field, when the
\* Field constraints hold; ok is FALSE when the constructor raises
GameStateConstruct(d) ==
    [ ok    |-> GameStateValidates(d),
      value |-> [ round_number   |-> d.round_number,
                  user_score     |-> d.user_score,
                  bot_score      |-> d.bot_score,
                  user_bomb_used |-> d.user_bomb_used,
                  bot_bomb_used  |-> d.bot_bomb_used,
                  game_active    |-> d.game_active,
                  last_user_move |-> d.last_user_move,
                  last_bot_move  |-> d.last_bot_move,
                  last_result    |-> d.last_result ] ]

\* validate_move(user_input) -> (is_valid, cleaned)
validate_move(user_input) ==
    LET cleaned == str_strip(str_lower(user_input))
    IN  <<cleaned \in VALID_MOVES, cleaned>>

\* Mutant of determine_winner's wins dict: "paper" is mapped to "scissors"
wins_get_typo(m) ==
    IF m = rock THEN scissors
    ELSE IF m = scissors THEN paper
    ELSE IF m = paper THEN scissors
    ELSE <<"N","o","n","e">>

\* wins = {"rock": "scissors", "scissors": "paper", "paper": "rock"}; wins.get(m)
wins_get(m) ==
    IF m = rock THEN scissors
    ELSE IF m = scissors THEN paper
    ELSE IF m = paper THEN rock
    ELSE <<"N","o","n","e">>

\* Mutant of determine_winner: the bomb checks come before the equality check
determine_winner_bomb_first(user_move, bot_move) ==
    IF user_move = bomb THEN "user"
    ELSE IF bot_move = bomb THEN "bot"
    ELSE IF user_move = bot_move THEN "draw"
    ELSE IF wins_get(user_move) = bot_move THEN "user" ELSE "bot"

determine_winner(user_move, bot_move) ==
    IF user_move = bot_move THEN "draw"
    ELSE IF user_move = bomb THEN "user"
    ELSE IF bot_move = bomb THEN "bot"
    ELSE IF wins_get(user_move) = bot_move THEN "user" ELSE "bot"

\* Mutant of choose_bot_move: the strategic bomb is left out
choose_bot_move_random_only(st, choice) ==
    choice

\* Mutant of choose_bot_move: bot_score <= user_score instead of <
choose_bot_move_le(st, choice) ==
    IF ~st.bot_bomb_used /\ st.round_number = 2 /\ st.bot_score <= st.user_score
    THEN bomb
    ELSE choice

\* choose_bot_move(state); choice is what random.choice returns when it is drawn
choose_bot_move(st, choice) ==
    IF ~st.bot_bomb_used /\ st.round_number = 2 /\ st.bot_score < st.user_score
    THEN bomb
    ELSE choice

\* Mutant of validate_move_tool: the bomb is not checked against user_bomb_used
validate_move_tool_no_bomb_check(user_input, user_bomb_used) ==
    LET v == validate_move(user_input)
    IN  IF ~v[1]
        THEN [valid |-> FALSE,
              error |-> [text |-> "Invalid move: '{user_input}'. Use: rock, paper, scissors, bomb",
                         arg  |-> user_input],
              move  |-> EmptyStr]
        ELSE [valid |-> TRUE,
              error |-> [text |-> "", arg |-> EmptyStr],
              move  |-> v[2]]

validate_move_tool(user_input, user_bomb_used) ==
    LET v == validate_move(user_input)
    IN  IF ~v[1]
        THEN [valid |-> FALSE,
              error |-> [text |-> "Invalid move: '{user_input}'. Use: rock, paper, scissors, bomb",
                         arg  |-> user_input],
              move  |-> EmptyStr]
        ELSE IF v[2] = bomb /\ user_bomb_used
        THEN [valid |-> FALSE,
              error |-> [text |-> "You already used your bomb!", arg |-> EmptyStr],
              move  |-> EmptyStr]
        ELSE [valid |-> TRUE,
              error |-> [text |-> "", arg |-> EmptyStr],
              move  |-> v[2]]

\* Mutant of resolve_round_tool: a draw gives each side a point
resolve_round_tool_draw_points(user_move, bot_move) ==
    LET winner == determine_winner(user_move, bot_move)
    IN  [ user_move  |-> user_move,
          bot_move   |-> bot_move,
          winner     |-> winner,
          user_point |-> IF winner # "bot" THEN 1 ELSE 0,
          bot_point  |-> IF winner # "user" THEN 1 ELSE 0 ]

resolve_round_tool(user_move, bot_move) ==
    LET winner == determine_winner(user_move, bot_move)
    IN  [ user_move  |-> user_move,
          bot_move   |-> bot_move,
          winner     |-> winner,
          user_point |-> IF winner = "user" THEN 1 ELSE 0,
          bot_point  |-> IF winner = "bot" THEN 1 ELSE 0 ]

\* Mutant of advance_round: the end check reads > 4 instead of > 3
advance_round_gt4(st) ==
    LET n == st.round_number + 1
    IN  [st EXCEPT !.round_number = n,
                   !.game_active  = IF n > 4 THEN FALSE ELSE st.game_active]

\* Mutant of advance_round: the end check reads >= 3 instead of > 3
advance_round_ge(st) ==
    LET n == st.round_number + 1
    IN  [st EXCEPT !.round_number = n,
                   !.game_active  = IF n >= 3 THEN FALSE ELSE st.game_active]

\* The round-number increment and end check shared by both return paths:
\* state.round_number += 1; if state.round_number > 3: state.game_active = False
advance_round(st) ==
    LET n == st.round_number + 1
    IN  [st EXCEPT !.round_number = n,
                   !.game_active  = IF n > 3 THEN FALSE ELSE st.game_active]

\* Mutant of invalid_round: last_user_move gets the lowercased input
invalid_round_lowers_input(st, user_input, error) ==
    advance_round([st EXCEPT !.last_user_move = str_lower(user_input),
                             !.last_bot_move  = EmptyStr,
                             !.last_result    = error])

\* Mutant of invalid_round: a wasted round does not advance the round number
invalid_round_no_advance(st, user_input, error) ==
    [st EXCEPT !.last_user_move = user_input,
               !.last_bot_move  = EmptyStr,
               !.last_result    = error]

\* Mutant of invalid_round: a wasted round leaves the previous bot move in place
invalid_round_keeps_bot_move(st, user_input, error) ==
    advance_round([st EXCEPT !.last_user_move = user_input,
                             !.last_result    = error])

\* The invalid branch of update_game_state_tool: the round is wasted
invalid_round(st, user_input, error) ==
    advance_round([st EXCEPT !.last_user_move = user_input,
                             !.last_bot_move  = EmptyStr,
                             !.last_result    = error])

\* Mutant of played_round: bot_bomb_used is assigned (bot_move == "bomb")
\* instead of being set only when the bot plays its bomb
played_round_overwrites_flag(st, user_move, choice) ==
    LET s1 == [st EXCEPT !.user_bomb_used = IF user_move = bomb THEN TRUE ELSE @]
        bot_move == choose_bot_move(s1, choice)
        s2 == [s1 EXCEPT !.bot_bomb_used = (bot_move = bomb)]
        round_result == resolve_round_tool(user_move, bot_move)
        s3 == [s2 EXCEPT
                  !.user_score     = @ + round_result.user_point,
                  !.bot_score      = @ + round_result.bot_point,
                  !.last_user_move = user_move,
                  !.last_bot_move  = bot_move,
                  !.last_result    =
                      [text |-> IF round_result.winner = "user"
                                THEN "You win this round!"
                                ELSE IF round_result.winner = "bot"
                                THEN "Bot wins this round!"
                                ELSE "It's a draw!",
                       arg  |-> EmptyStr]]
    IN  advance_round(s3)

\* Steps 2 to 6 of update_game_state_tool: the round is played
played_round(st, user_move, choice) ==
    LET s1 == [st EXCEPT !.user_bomb_used = IF user_move = bomb THEN TRUE ELSE @]
        bot_move == choose_bot_move(s1, choice)
        s2 == [s1 EXCEPT !.bot_bomb_used = IF bot_move = bomb THEN TRUE ELSE @]
        round_result == resolve_round_tool(user_move, bot_move)
        s3 == [s2 EXCEPT
                  !.user_score     = @ + round_result.user_point,
                  !.bot_score      = @ + round_result.bot_point,
                  !.last_user_move = user_move,
                  !.last_bot_move  = bot_move,
                  !.last_result    =
                      [text |-> IF round_result.winner = "user"
                                THEN "You win this round!"
                                ELSE IF round_result.winner = "bot"
                                THEN "Bot wins this round!"
                                ELSE "It's a draw!",
                       arg  |-> EmptyStr]]
    IN  advance_round(s3)

\* update_game_state_tool(user_input, current_state) for a current_state that
\* GameState(**current_state) accepts; returns state.model_dump()
update_game_state_tool(user_input, current_state, choice) ==
    LET validation == validate_move_tool(user_input, current_state.user_bomb_used)
    IN  IF ~validation.valid
        THEN invalid_round(current_state, user_input, validation.error)
        ELSE played_round(current_state, validation.move, choice)

-----------------------------------------------------------------------------
(* game_referee.py: GameEngine *)

\* self.max_rounds = 3
max_rounds == 3

\* GameEngine.__init__
GameEngineInit ==
    [ user_score     |-> 0,
      bot_score      |-> 0,
      round_count    |-> 0,
      user_bomb_used |-> FALSE,
      bot_bomb_used  |-> FALSE,
      game_over      |-> FALSE ]

\* Mutant of get_bot_move: the 10% bomb draw is made without looking at
\* bot_bomb_used
get_bot_move_ignores_flag(self, roll, choice) ==
    IF roll THEN bomb ELSE choice

\* GameEngine.get_bot_move; roll is (random.random() < 0.1), choice is what
\* random.choice(moves) returns
get_bot_move(self, roll, choice) ==
    IF ~self.bot_bomb_used /\ roll THEN bomb ELSE choice

\* The winner chain of resolve_round
round_winner(user_move, bot_move) ==
    IF user_move = bot_move THEN "draw"
    ELSE IF user_move = bomb THEN "user"
    ELSE IF bot_move = bomb THEN "bot"
    ELSE IF \/ (user_move = rock /\ bot_move = scissors)
            \/ (user_move = scissors /\ bot_move = paper)
            \/ (user_move = paper /\ bot_move = rock)
    THEN "user"
    ELSE "bot"

\* Mutant of count_round: the end check reads > max_rounds instead of >=
count_round_gt(self) ==
    LET n == self.round_count + 1
    IN  [self EXCEPT !.round_count = n,
                     !.game_over   = IF n > max_rounds THEN TRUE ELSE self.game_over]

\* self.round_count += 1; if self.round_count >= self.max_rounds: self.game_over = True
count_round(self) ==
    LET n == self.round_count + 1
    IN  [self EXCEPT !.round_count = n,
                     !.game_over   = IF n >= max_rounds THEN TRUE ELSE self.game_over]

\* The dict returned by the two wasted-round paths of resolve_round
invalid_result(self, text, arg) ==
    [ round     |-> self.round_count,
      status    |-> "invalid",
      message   |-> [text |-> text, arg |-> arg],
      scores    |-> [User |-> self.user_score, Bot |-> self.bot_score],
      game_over |-> self.game_over ]

\* The final_result of a played round
final_result_of(self) ==
    IF ~self.game_over THEN "None"
    ELSE IF self.user_score > self.bot_score THEN "User Wins Game!"
    ELSE IF self.bot_score > self.user_score THEN "Bot Wins Game!"
    ELSE "Game Ends in Draw!"

\* GameEngine.resolve_round(user_move): the engine after the call and the
\* dict it returns
resolve_round(self, raw_move, roll, choice) ==
    IF self.game_over
    THEN [ self |-> self,
           ret  |-> [status |-> "game_over", message |-> "Game is already finished."] ]
    ELSE
      LET user_move == str_strip(str_lower(raw_move))
      IN  IF user_move \notin VALID_MOVES
          THEN LET s1 == count_round(self)
               IN  [ self |-> s1,
                     ret  |-> invalid_result(s1, "Invalid move '{user_move}'. Round wasted.",
                                             user_move) ]
          ELSE IF user_move = bomb /\ self.user_bomb_used
          THEN LET s1 == count_round(self)
               IN  [ self |-> s1,
                     ret  |-> invalid_result(s1, "Bomb already used! Round wasted.", EmptyStr) ]
          ELSE
            LET s1 == [self EXCEPT !.user_bomb_used = IF user_move = bomb THEN TRUE ELSE @]
                bot_move == get_bot_move(s1, roll, choice)
                s2 == [s1 EXCEPT !.bot_bomb_used = IF bot_move = bomb THEN TRUE ELSE @]
                winner == round_winner(user_move, bot_move)
                s3 == [s2 EXCEPT
                          !.round_count = @ + 1,
                          !.user_score  = IF winner = "user" THEN @ + 1 ELSE @,
                          !.bot_score   = IF winner = "bot" THEN @ + 1 ELSE @]
                s4 == [s3 EXCEPT
                          !.game_over = IF s3.round_count >= max_rounds THEN TRUE ELSE @]
            IN  [ self |-> s4,
                  ret  |-> [ round        |-> s4.round_count,
                             moves        |-> [User |-> user_move, Bot |-> bot_move],
                             round_winner |-> winner,
                             scores       |-> [User |-> s4.user_score, Bot |-> s4.bot_score],
                             game_over    |-> s4.game_over,
                             final_result |-> final_result_of(s4) ] ]

-----------------------------------------------------------------------------
(* The state machine: a caller drives either engine, one call per step. *)

\* The winner line of run_game's GAME OVER summary (score comparison)
FinalComparison(user_score, bot_score) ==
    IF user_score > bot_score THEN "YOU WIN THE GAME!"
    ELSE IF bot_score > user_score THEN "BOT WINS THE GAME!"
    ELSE "IT'S A DRAW!"

NoBombs == [user |-> 0, bot |-> 0]

\* start_game has not been called
StartOff ==
    /\ sg_pc = "off"
    /\ sg_attempt = 0
    /\ sg_sends = 0
    /\ sg_opening = "none"

\* The two scripts of the repository; a run is a run of one of them.
Programs == {"game_referee_v2", "game_referee"}

Init ==
    /\ program \in Programs
    /\ state = GameStateDefault
    /\ v2_input = EmptyStr
    /\ v2_outcome = "none"
    /\ v2_calls = 0
    /\ v2_bombs = NoBombs
    /\ engine = GameEngineInit
    /\ v1_input = EmptyStr
    /\ v1_result = [status |-> "none"]
    /\ v1_calls = 0
    /\ v1_bombs = NoBombs
    /\ v2_played = 0
    /\ v1_played = 0
    /\ run_pc = "off"
    /\ run_moves = 0
    /\ run_changes = 0
    /\ run_summary = ""
    /\ StartOff

\* A call of update_game_state_tool on the state the caller holds, which
\* returns the next state; the caller keeps it.
UpdateGameState ==
    \E user_input \in RawInputs, choice \in RandomMoves :
        /\ program = "game_referee_v2"
        /\ v2_calls < MaxCalls
        /\ GameStateValidates(state)
        /\ state' = update_game_state_tool(user_input, state, choice)
        /\ v2_input' = user_input
        /\ v2_outcome' = "returned"
        /\ v2_calls' = v2_calls + 1
        /\ v2_bombs' =
              [ user |-> v2_bombs.user +
                           (IF state'.last_bot_move # EmptyStr /\ state'.last_user_move = bomb
                            THEN 1 ELSE 0),
                bot  |-> v2_bombs.bot + (IF state'.last_bot_move = bomb THEN 1 ELSE 0) ]
        /\ v2_played' = v2_played + (IF state'.last_bot_move # EmptyStr THEN 1 ELSE 0)
        /\ UNCHANGED <<program, v1vars, v1_played, runvars, startvars>>

\* A call of update_game_state_tool on a dict GameState(**current_state)
\* rejects: the constructor raises and no state is returned.
UpdateGameStateRaises ==
    \E user_input \in RawInputs :
        /\ program = "game_referee_v2"
        /\ v2_calls < MaxCalls
        /\ ~GameStateValidates(state)
        /\ v2_input' = user_input
        /\ v2_outcome' = "raised"
        /\ v2_calls' = v2_calls + 1
        /\ UNCHANGED <<state, v2_bombs>>
        /\ UNCHANGED <<program, v1vars, v2_played, v1_played, runvars, startvars>>

\* A call of GameEngine.resolve_round
ResolveRound ==
    \E raw_move \in RawInputs, roll \in BOOLEAN, choice \in RandomMoves :
        LET r == resolve_round(engine, raw_move, roll, choice)
            played == "moves" \in DOMAIN r.ret
        IN  /\ program = "game_referee"
            /\ v1_calls < MaxCalls
            /\ engine' = r.self
            /\ v1_result' = r.ret
            /\ v1_input' = raw_move
            /\ v1_calls' = v1_calls + 1
            /\ v1_bombs' =
                  [ user |-> v1_bombs.user +
                               (IF played /\ r.ret.moves.User = bomb THEN 1 ELSE 0),
                    bot  |-> v1_bombs.bot +
                               (IF played /\ r.ret.moves.Bot = bomb THEN 1 ELSE 0) ]
            /\ v1_played' = v1_played + (IF played THEN 1 ELSE 0)
            /\ UNCHANGED <<program, v2vars, v2_played, runvars, startvars>>

Next ==
    \/ UpdateGameState
    \/ UpdateGameStateRaises
    \/ ResolveRound

Spec == Init /\ [][Next]_vars

-----------------------------------------------------------------------------
(* Claims about the engines *)

\* A step in which update_game_state_tool was called and returned a state
V2Returned == v2_calls' = v2_calls + 1 /\ v2_outcome' = "returned"

\* A step in which resolve_round was called while the game was not over
V1Counted == v1_calls' = v1_calls + 1 /\ ~engine.game_over

\* The lowercased, whitespace-trimmed form of a raw text
Normalized(raw) == str_strip(str_lower(raw))

\* C1: every call of update_game_state_tool that returns a state returns one
\* whose round_number is the input state's round_number + 1, whatever the
\* raw input is (a valid move, invalid text or a repeated bomb).
C1_RoundAdvancesByOne ==
    [][V2Returned => state'.round_number = state.round_number + 1]_vars

\* C1 witness: a repeated bomb was submitted in round 3 and the call returned
\* the state of round 4.
C1_Witness ==
    /\ v2_outcome = "returned"
    /\ Normalized(v2_input) = bomb
    /\ state.last_bot_move = EmptyStr
    /\ state.round_number = 4

\* C2: across any sequence of engine calls from the default GameState, each
\* fed the state the previous one returned, round_number never exceeds 4 and
\* never decreases.
C2_RoundBounded ==
    /\ [](state.round_number <= 4)
    /\ [][state'.round_number >= state.round_number]_vars

\* C2 witness: the engine was called again on the state of round 4; the call
\* raised and the state stayed at round 4.
C2_Witness ==
    /\ state.round_number = 4
    /\ v2_outcome = "raised"

\* C3: in every state reachable from the default GameState, game_active is
\* true if and only if round_number <= 3.
C3_ActiveIffRoundAtMost3 ==
    state.game_active <=> (state.round_number <= 3)

\* C3 witness: the third call returned, the round number is 4 and the game is
\* no longer active.
C3_Witness ==
    /\ v2_outcome = "returned"
    /\ state.round_number = 4
    /\ ~state.game_active

\* C4: user_score + bot_score <= round_number - 1 in every reachable state and
\* neither score exceeds 3; each returned call awards at most one point in
\* total: one to the winner of a decided round, none on a draw or a wasted round.
C4_ScoreBound ==
    /\ [](/\ state.user_score + state.bot_score <= state.round_number - 1
          /\ state.user_score <= 3
          /\ state.bot_score <= 3)
    /\ [][V2Returned =>
            LET du == state'.user_score - state.user_score
                db == state'.bot_score - state.bot_score
            IN  /\ du \in {0, 1}
                /\ db \in {0, 1}
                /\ du + db <= 1
                /\ (du = 1) <=> (state'.last_result.text = "You win this round!")
                /\ (db = 1) <=> (state'.last_result.text = "Bot wins this round!")
                /\ (state'.last_bot_move = EmptyStr => du + db = 0)]_vars

\* C4 witness: three decided rounds, so the bound is met with equality.
C4_Witness ==
    /\ state.round_number = 4
    /\ state.user_score + state.bot_score = 3

\* C5: for a raw input whose lowercased, trimmed form is no move, the returned
\* state has the scores and both bomb flags of the input state, an empty
\* last_bot_move, the raw input as last_user_move and round_number + 1.
C5_InvalidWastesRound ==
    [][(V2Returned /\ Normalized(v2_input') \notin VALID_MOVES) =>
            /\ state'.user_score = state.user_score
            /\ state'.bot_score = state.bot_score
            /\ state'.user_bomb_used = state.user_bomb_used
            /\ state'.bot_bomb_used = state.bot_bomb_used
            /\ state'.last_bot_move = EmptyStr
            /\ state'.last_user_move = v2_input'
            /\ state'.round_number = state.round_number + 1]_vars

\* C5 witness: an invalid, non-empty text was submitted after a bot move had
\* been made and points and a bomb had been played.
C5_Witness ==
    /\ v2_outcome = "returned"
    /\ Normalized(v2_input) \notin VALID_MOVES
    /\ v2_input # EmptyStr
    /\ state.last_user_move = v2_input
    /\ state.last_bot_move = EmptyStr
    /\ state.user_score + state.bot_score > 0
    /\ state.user_bomb_used

\* C6: the first bomb a user submits sets user_bomb_used and is resolved as a
\* normal round against a bot move (a draw against the bot's bomb, a point for
\* the user otherwise); every later bomb submission of the game wastes the
\* round (scores, bot_bomb_used unchanged, no bot move, round counter + 1)
\* and leaves user_bomb_used true. Stated for both engines.
C6_BombTwice ==
    /\ [][(V2Returned /\ Normalized(v2_input') = bomb) =>
            IF ~state.user_bomb_used
            THEN /\ state'.user_bomb_used
                 /\ state'.last_user_move = bomb
                 /\ state'.last_bot_move \in VALID_MOVES
                 /\ state'.bot_score = state.bot_score
                 /\ state'.user_score =
                        state.user_score + (IF state'.last_bot_move = bomb THEN 0 ELSE 1)
                 /\ state'.round_number = state.round_number + 1
            ELSE /\ state'.user_bomb_used
                 /\ state'.user_score = state.user_score
                 /\ state'.bot_score = state.bot_score
                 /\ state'.bot_bomb_used = state.bot_bomb_used
                 /\ state'.last_bot_move = EmptyStr
                 /\ state'.round_number = state.round_number + 1]_vars
    /\ [][(V1Counted /\ Normalized(v1_input') = bomb) =>
            IF ~engine.user_bomb_used
            THEN /\ engine'.user_bomb_used
                 /\ "moves" \in DOMAIN v1_result'
                 /\ v1_result'.moves.User = bomb
                 /\ v1_result'.moves.Bot \in VALID_MOVES
                 /\ engine'.bot_score = engine.bot_score
                 /\ engine'.user_score =
                        engine.user_score + (IF v1_result'.moves.Bot = bomb THEN 0 ELSE 1)
                 /\ engine'.round_count = engine.round_count + 1
            ELSE /\ engine'.user_bomb_used
                 /\ "moves" \notin DOMAIN v1_result'
                 /\ v1_result'.status = "invalid"
                 /\ engine'.user_score = engine.user_score
                 /\ engine'.bot_score = engine.bot_score
                 /\ engine'.bot_bomb_used = engine.bot_bomb_used
                 /\ engine'.round_count = engine.round_count + 1]_vars

\* C6 witness: a bomb was played in an earlier round and a second bomb
\* submission has just wasted a round.
C6_Witness ==
    /\ v2_outcome = "returned"
    /\ Normalized(v2_input) = bomb
    /\ v2_bombs.user = 1
    /\ state.user_bomb_used
    /\ state.last_bot_move = EmptyStr
    /\ state.last_result.text = "You already used your bomb!"

\* C7: user_bomb_used and bot_bomb_used never go from true back to false, in
\* either engine (so each changes at most once, from false to true).
C7_BombFlagsMonotone ==
    [][/\ state.user_bomb_used => state'.user_bomb_used
       /\ state.bot_bomb_used => state'.bot_bomb_used
       /\ engine.user_bomb_used => engine'.user_bomb_used
       /\ engine.bot_bomb_used => engine'.bot_bomb_used]_vars

\* C7 witness: both flags were set in round 2 and are still set after round 3.
C7_Witness ==
    /\ state.user_bomb_used
    /\ state.bot_bomb_used
    /\ state.round_number = 4
    /\ state.last_bot_move # bomb
    /\ state.last_user_move # bomb

\* C8: in a game from the default state each player's bomb is resolved as a
\* played move at most once, and the bot selector does not return bomb once
\* bot_bomb_used is true. Stated for both engines.
C8_BombPlayedAtMostOnce ==
    /\ v2_bombs.user <= 1
    /\ v2_bombs.bot <= 1
    /\ v1_bombs.user <= 1
    /\ v1_bombs.bot <= 1
    /\ state.bot_bomb_used =>
          \A choice \in RandomMoves : choose_bot_move(state, choice) # bomb
    /\ engine.bot_bomb_used =>
          \A roll \in BOOLEAN, choice \in RandomMoves :
              get_bot_move(engine, roll, choice) # bomb

\* C8 witness: both players have played their bomb and the user has submitted
\* bomb again.
C8_Witness ==
    /\ v2_bombs.user = 1
    /\ v2_bombs.bot = 1
    /\ v2_outcome = "returned"
    /\ Normalized(v2_input) = bomb
    /\ state.last_bot_move = EmptyStr

\* The reference table of the winner rules: the pairs (user, bot) the user wins
UserWinsTable ==
    { <<bomb, rock>>, <<bomb, paper>>, <<bomb, scissors>>,
      <<rock, scissors>>, <<scissors, paper>>, <<paper, rock>> }

\* The reference table: the pairs that are a draw
DrawTable ==
    { <<rock, rock>>, <<paper, paper>>, <<scissors, scissors>>, <<bomb, bomb>> }

WinnerTable(u, b) ==
    IF <<u, b>> \in DrawTable THEN "draw"
    ELSE IF <<u, b>> \in UserWinsTable THEN "user"
    ELSE "bot"

\* The round text update_game_state_tool stores for a winner
ResultText(w) ==
    IF w = "user" THEN "You win this round!"
    ELSE IF w = "bot" THEN "Bot wins this round!"
    ELSE "It's a draw!"

\* C9: determine_winner (and the winner chain of resolve_round) gives a result
\* for each of the 16 pairs of moves and equals the reference table; the
\* result of every played round is the table's entry for the moves played.
C9_WinnerTable ==
    /\ \A u \in VALID_MOVES, b \in VALID_MOVES :
          /\ determine_winner(u, b) \in {"user", "bot", "draw"}
          /\ determine_winner(u, b) = WinnerTable(u, b)
          /\ round_winner(u, b) = WinnerTable(u, b)
    /\ state.last_bot_move # EmptyStr =>
          state.last_result.text =
              ResultText(WinnerTable(state.last_user_move, state.last_bot_move))
    /\ "moves" \in DOMAIN v1_result =>
          v1_result.round_winner =
              WinnerTable(v1_result.moves.User, v1_result.moves.Bot)

\* C9 witness: a round of bomb against bomb was resolved as a draw.
C9_Witness ==
    /\ state.last_user_move = bomb
    /\ state.last_bot_move = bomb
    /\ state.last_result.text = "It's a draw!"
    /\ state.user_score = 1
    /\ state.bot_score = 0

\* The strategic condition of the bot selector on a v2 state
BotBombCondition(st) ==
    ~st.bot_bomb_used /\ st.round_number = 2 /\ st.bot_score < st.user_score

\* C10 as amended: in game_referee_v2.py the bot's move of a played round is
\* bomb exactly when bot_bomb_used is false, round_number is 2 and
\* bot_score < user_score, and is rock, paper or scissors otherwise; in
\* game_referee.py the bot's move is bomb only while bot_bomb_used is false
\* (in any round, at any score) and rock, paper or scissors otherwise.
C10_BotSelector ==
    /\ [][(V2Returned /\ state'.last_bot_move # EmptyStr) =>
            /\ state'.last_bot_move \in VALID_MOVES
            /\ (state'.last_bot_move = bomb) <=> BotBombCondition(state)]_vars
    /\ [][(V1Counted /\ "moves" \in DOMAIN v1_result') =>
            /\ v1_result'.moves.Bot \in VALID_MOVES
            /\ (v1_result'.moves.Bot = bomb) => ~engine.bot_bomb_used]_vars

\* C10 witness: the bot, behind in round 2, played its bomb.
C10_Witness ==
    /\ state.round_number = 3
    /\ state.last_bot_move = bomb
    /\ state.bot_bomb_used

\* C10 as stated, for the selector of either engine (round_count + 1 is the
\* number of the round being played in game_referee.py).
C10_Original ==
    /\ [][(V2Returned /\ state'.last_bot_move # EmptyStr) =>
            /\ state'.last_bot_move \in VALID_MOVES
            /\ (state'.last_bot_move = bomb) <=> BotBombCondition(state)]_vars
    /\ [][(V1Counted /\ "moves" \in DOMAIN v1_result') =>
            /\ v1_result'.moves.Bot \in VALID_MOVES
            /\ (v1_result'.moves.Bot = bomb) <=>
                  /\ ~engine.bot_bomb_used
                  /\ engine.round_count + 1 = 2
                  /\ engine.bot_score < engine.user_score]_vars

C12_NeverRaises ==
    v2_outcome # "raised"

\* C13: the finished state is terminal. Once the game has ended (v2:
\* game_active false; v1: game_over true) no call changes the state again: a
\* v2 call is rejected (it raises), a v1 call returns the game_over dict.
C13_FinishedIsTerminal ==
    [][/\ ~state.game_active =>
             /\ state' = state
             /\ v2_calls' = v2_calls + 1 => v2_outcome' = "raised"
       /\ engine.game_over =>
             /\ engine' = engine
             /\ v1_calls' = v1_calls + 1 =>
                   /\ "status" \in DOMAIN v1_result'
                   /\ v1_result'.status = "game_over"]_vars

\* C13 witness: resolve_round was called on a finished game and returned the
\* game_over dict.
C13_Witness ==
    /\ engine.game_over
    /\ engine.round_count = 3
    /\ "status" \in DOMAIN v1_result
    /\ v1_result.status = "game_over"

\* C14: every dict update_game_state_tool returns satisfies the GameState
\* field constraints and round-trips: GameState(**dict) succeeds and has the
\* same field values, the finished state with round_number 4 included.
C14_RoundTrip ==
    v2_outcome = "returned" =>
        /\ GameStateConstruct(state).ok
        /\ GameStateConstruct(state).value = state

\* A v2 step on the bomb re-use path: the call returned, the normalized input
\* is bomb and user_bomb_used was already true
V2BombReuse ==
    V2Returned /\ Normalized(v2_input') = bomb /\ state.user_bomb_used

\* C17 as stated: on the bomb re-use path last_user_move of the returned state
\* is the normalized value "bomb" for every raw spelling of bomb.
C17_Original ==
    [][V2BombReuse => state'.last_user_move = bomb]_vars

\* C17 as amended: on the bomb re-use path last_user_move of the returned
\* state is the raw input text as submitted (case and whitespace kept), as on
\* the invalid-move path; it is "bomb" only when the raw text is itself "bomb".
C17_ReuseKeepsRawInput ==
    [][V2BombReuse =>
          /\ state'.last_user_move = v2_input'
          /\ state'.last_result.text = "You already used your bomb!"
          /\ (state'.last_user_move = bomb) <=> (v2_input' = bomb)]_vars

\* C17 witness: bomb was re-submitted with another spelling and the returned
\* state holds that spelling.
C17_Witness ==
    /\ v2_outcome = "returned"
    /\ state.last_result.text = "You already used your bomb!"
    /\ v2_input # bomb
    /\ state.last_user_move = v2_input

\* C18: determine_winner is antisymmetric over the 16 pairs of moves: (a, b)
\* is a user win exactly when (b, a) is a bot win, and a draw exactly when
\* a = b; the result stored for every played round is the mirror of the
\* resolver's answer for the swapped moves.
C18_Antisymmetric ==
    /\ \A a \in VALID_MOVES, b \in VALID_MOVES :
          /\ (determine_winner(a, b) = "user") <=> (determine_winner(b, a) = "bot")
          /\ (determine_winner(a, b) = "draw") <=> (a = b)
    /\ state.last_bot_move # EmptyStr =>
          LET mirrored == determine_winner(state.last_bot_move, state.last_user_move)
          IN  /\ (state.last_result.text = "You win this round!") <=> (mirrored = "bot")
              /\ (state.last_result.text = "Bot wins this round!") <=> (mirrored = "user")
              /\ (state.last_result.text = "It's a draw!") <=> (mirrored = "draw")

\* C18 witness: a round of paper against rock was resolved for the user.
C18_Witness ==
    /\ state.last_user_move = paper
    /\ state.last_bot_move = rock
    /\ state.last_result.text = "You win this round!"

\* C20: in every state of a v2 game from the default state user_score <= 2:
\* a user who leads after round 1 meets the bot's bomb in round 2, so the
\* user has won at most one of the first two rounds.
C20_UserScoreAtMost2 ==
    /\ state.user_score <= 2
    /\ state.round_number = 3 => state.user_score <= 1

\* C20 witness: the user led after round 1, drew the bot's bomb with a bomb in
\* round 2 and won round 3.
C20_Witness ==
    /\ state.round_number = 4
    /\ state.user_score = 2
    /\ state.bot_score = 0
    /\ state.user_bomb_used
    /\ state.bot_bomb_used

-----------------------------------------------------------------------------
(* The two engines side by side: each step hands the same raw input to
   update_game_state_tool and to resolve_round, with random draws under which
   both bots make the same move. *)

LockstepInit ==
    /\ program = "lockstep"
    /\ state = GameStateDefault
    /\ v2_input = EmptyStr
    /\ v2_outcome = "none"
    /\ v2_calls = 0
    /\ v2_bombs = NoBombs
    /\ engine = GameEngineInit
    /\ v1_input = EmptyStr
    /\ v1_result = [status |-> "none"]
    /\ v1_calls = 0
    /\ v1_bombs = NoBombs
    /\ v2_played = 0
    /\ v1_played = 0
    /\ run_pc = "off"
    /\ run_moves = 0
    /\ run_changes = 0
    /\ run_summary = ""
    /\ StartOff

\* One round on both engines, while either still takes moves
LockstepRound ==
    \E raw \in RawInputs, roll \in BOOLEAN, choice2 \in RandomMoves, choice1 \in RandomMoves :
        LET accepted == GameStateValidates(state)
            next2   == IF accepted THEN update_game_state_tool(raw, state, choice2) ELSE state
            r       == resolve_round(engine, raw, roll, choice1)
            played2 == accepted /\ next2.last_bot_move # EmptyStr
            played1 == "moves" \in DOMAIN r.ret
        IN  /\ program = "lockstep"
            /\ state.game_active \/ ~engine.game_over
            /\ v2_calls < MaxCalls
            /\ (played1 /\ played2) => r.ret.moves.Bot = next2.last_bot_move
            /\ state' = next2
            /\ v2_input' = raw
            /\ v2_outcome' = IF accepted THEN "returned" ELSE "raised"
            /\ v2_calls' = v2_calls + 1
            /\ v2_bombs' =
                  [ user |-> v2_bombs.user +
                               (IF played2 /\ next2.last_user_move = bomb THEN 1 ELSE 0),
                    bot  |-> v2_bombs.bot +
                               (IF played2 /\ next2.last_bot_move = bomb THEN 1 ELSE 0) ]
            /\ v2_played' = v2_played + (IF played2 THEN 1 ELSE 0)
            /\ engine' = r.self
            /\ v1_result' = r.ret
            /\ v1_input' = raw
            /\ v1_calls' = v1_calls + 1
            /\ v1_bombs' =
                  [ user |-> v1_bombs.user +
                               (IF played1 /\ r.ret.moves.User = bomb THEN 1 ELSE 0),
                    bot  |-> v1_bombs.bot +
                               (IF played1 /\ r.ret.moves.Bot = bomb THEN 1 ELSE 0) ]
            /\ v1_played' = v1_played + (IF played1 THEN 1 ELSE 0)
            /\ UNCHANGED <<program, runvars, startvars>>

LockstepNext == LockstepRound

SpecLockstep == LockstepInit /\ [][LockstepNext]_vars

\* C19: fed the same inputs and the same bot moves from their initial states,
\* the two engines stay related: round_count = round_number - 1, game_over =
\* not game_active, equal scores and bomb flags, and the same rounds played.
C19_EnginesEquivalent ==
    /\ engine.round_count = state.round_number - 1
    /\ engine.game_over = ~state.game_active
    /\ engine.user_score = state.user_score
    /\ engine.bot_score = state.bot_score
    /\ engine.user_bomb_used = state.user_bomb_used
    /\ engine.bot_bomb_used = state.bot_bomb_used
    /\ v1_played = v2_played

\* C19 witness: both engines have finished a game with a wasted round, a bot
\* bomb and a user bomb in it.
C19_Witness ==
    /\ program = "lockstep"
    /\ engine.game_over
    /\ ~state.game_active
    /\ v2_played = 2
    /\ engine.bot_bomb_used
    /\ state.user_bomb_used
    /\ engine.user_score = 1

-----------------------------------------------------------------------------
(* game_referee_v2.py: run_game. The chat backend is an environment: a call
   to it fails, or answers with a sequence of parts, each possibly a function
   call whose name and arguments the backend chooses. *)

\* Function-call parts in one response
MaxParts == 2

\* Non-empty move submissions in one behaviour
MaxSubmissions == 4

\* The texts typed at the "Your move" prompt in the model
RunInputs ==
    { rock, <<"B","o","m","b"," ">>, <<"l","i","z","a","r","d">>, <<" ">> }

\* The function-call parts the backend answers with: a call of another
\* declared tool, or a call of update_game_state_tool whose current_state is
\* the state of the prompt ("prompt"), that state with game_active false
\* ("edited"), or lacks a required key ("malformed"); choice is the draw of
\* random.choice made while the call runs
FunctionCalls ==
    { [name |-> "validate_move_tool", args |-> "prompt", choice |-> rock] }
    \cup { [name |-> "update_game_state_tool", args |-> a, choice |-> c] :
              a \in {"prompt", "edited"}, c \in RandomMoves }
    \cup { [name |-> "update_game_state_tool", args |-> "malformed", choice |-> rock] }

Responses == UNION { [1..n -> FunctionCalls] : n \in 1..MaxParts }

\* The loop over response.candidates[0].content.parts inside the try block:
\* acc is [state, tool_called, changes, raised]
RECURSIVE ProcessParts(_, _, _, _)
ProcessParts(parts, user_move, prompt_state, acc) ==
    IF parts = <<>> \/ acc.raised THEN acc
    ELSE
      LET part == Head(parts)
          called == [acc EXCEPT !.tool_called = TRUE]
      IN  IF part.name # "update_game_state_tool"
          THEN ProcessParts(Tail(parts), user_move, prompt_state, called)
          ELSE IF part.args = "malformed"
          THEN [called EXCEPT !.raised = TRUE]
          ELSE
            LET current_state == IF part.args = "prompt" THEN prompt_state
                                 ELSE [prompt_state EXCEPT !.game_active = FALSE]
                result == update_game_state_tool(user_move, current_state, part.choice)
                built == GameStateConstruct(result)
            IN  IF ~GameStateValidates(current_state) \/ ~built.ok
                THEN [called EXCEPT !.raised = TRUE]
                ELSE ProcessParts(Tail(parts), user_move, prompt_state,
                                  [called EXCEPT !.state = built.value,
                                                 !.changes = @ + 1])

\* The fallback of run_game (lines 335-336 and 390-391): the engine is called
\* on the caller's state and the result is built into a GameState; ok is
\* FALSE when that constructor raises, which nothing catches
Fallback(user_move, st, choice) ==
    GameStateConstruct(update_game_state_tool(user_move, st, choice))

RunInit ==
    /\ program = "run_game"
    /\ state = GameStateDefault
    /\ v2_input = EmptyStr
    /\ v2_outcome = "none"
    /\ v2_calls = 0
    /\ v2_bombs = NoBombs
    /\ engine = GameEngineInit
    /\ v1_input = EmptyStr
    /\ v1_result = [status |-> "none"]
    /\ v1_calls = 0
    /\ v1_bombs = NoBombs
    /\ v2_played = 0
    /\ v1_played = 0
    /\ run_pc = "start"
    /\ run_moves = 0
    /\ run_changes = 0
    /\ run_summary = ""
    /\ StartOff

RunFrame ==
    UNCHANGED <<program, v2_outcome, v2_calls, v2_bombs, v2_played, v1vars, v1_played, startvars>>

\* Lines 282-296: one of the candidate models answers the opening request
Connect ==
    /\ run_pc = "start"
    /\ run_pc' = "loop"
    /\ UNCHANGED <<state, v2_input, run_moves, run_changes, run_summary>>
    /\ RunFrame

\* Lines 305-310: no model answers; run_game returns without a game
ConnectFails ==
    /\ run_pc = "start"
    /\ run_pc' = "failed"
    /\ UNCHANGED <<state, v2_input, run_moves, run_changes, run_summary>>
    /\ RunFrame

\* Lines 314-318: the stripped input is empty; the loop asks again
SubmitEmpty ==
    \E raw \in RunInputs :
        /\ run_pc = "loop"
        /\ state.game_active
        /\ str_strip(raw) = EmptyStr
        /\ v2_input' = EmptyStr
        /\ UNCHANGED <<state, run_pc, run_moves, run_changes, run_summary>>
        /\ RunFrame

\* The end of an iteration that fell back to the engine call on the caller's state
FallbackStep(user_move, st, changes, choice) ==
    LET built == Fallback(user_move, st, choice)
    IN  IF built.ok
        THEN /\ state' = built.value
             /\ run_changes' = changes + 1
             /\ run_pc' = "loop"
        ELSE /\ state' = st
             /\ run_changes' = changes
             /\ run_pc' = "crashed"

\* Lines 323-339: generate_content raises; the except block calls the engine
SubmitApiError ==
    \E raw \in RunInputs, choice \in RandomMoves :
        LET user_move == str_strip(raw)
        IN  /\ run_pc = "loop"
            /\ state.game_active
            /\ run_moves < MaxSubmissions
            /\ user_move # EmptyStr
            /\ v2_input' = user_move
            /\ run_moves' = run_moves + 1
            /\ FallbackStep(user_move, state, 0, choice)
            /\ UNCHANGED run_summary
            /\ RunFrame

\* Lines 341-394 for a response without a function call: tool_called stays
\* False and the engine is called on the caller's state
SubmitNoToolCall ==
    \E raw \in RunInputs, choice \in RandomMoves :
        LET user_move == str_strip(raw)
        IN  /\ run_pc = "loop"
            /\ state.game_active
            /\ run_moves < MaxSubmissions
            /\ user_move # EmptyStr
            /\ v2_input' = user_move
            /\ run_moves' = run_moves + 1
            /\ FallbackStep(user_move, state, 0, choice)
            /\ UNCHANGED run_summary
            /\ RunFrame

\* Lines 341-394 for a response with function-call parts
SubmitToolCalls ==
    \E raw \in RunInputs, parts \in Responses, choice \in RandomMoves :
        LET user_move == str_strip(raw)
            done == ProcessParts(parts, user_move, state,
                                 [state |-> state, tool_called |-> FALSE,
                                  changes |-> 0, raised |-> FALSE])
            tool_called == done.tool_called /\ ~done.raised
        IN  /\ run_pc = "loop"
            /\ state.game_active
            /\ run_moves < MaxSubmissions
            /\ user_move # EmptyStr
            /\ v2_input' = user_move
            /\ run_moves' = run_moves + 1
            /\ IF tool_called
               THEN /\ state' = done.state
                    /\ run_changes' = done.changes
                    /\ run_pc' = "loop"
               ELSE FallbackStep(user_move, done.state, done.changes, choice)
            /\ UNCHANGED run_summary
            /\ RunFrame

\* Lines 396-408: the loop has ended; the GAME OVER summary is printed
Summary ==
    /\ run_pc = "loop"
    /\ ~state.game_active
    /\ run_pc' = "done"
    /\ run_summary' = FinalComparison(state.user_score, state.bot_score)
    /\ UNCHANGED <<state, v2_input, run_moves, run_changes>>
    /\ RunFrame

RunNext ==
    \/ Connect
    \/ ConnectFails
    \/ SubmitEmpty
    \/ SubmitApiError
    \/ SubmitNoToolCall
    \/ SubmitToolCalls
    \/ Summary

SpecRun == RunInit /\ [][RunNext]_vars

\* A step of run_game that handled a non-empty move submission
Submitted == run_moves' = run_moves + 1

\* C15: each non-empty move submission changes the caller's GameState exactly
\* once and advances round_number by exactly 1, whatever the chat backend does.
C15_OneChangePerSubmission ==
    [][Submitted =>
          /\ run_changes' = 1
          /\ state'.round_number = state.round_number + 1]_vars

\* C16: a game always ends by itself: run_game never stops on an uncaught
\* exception, after three non-empty submissions the game is no longer active
\* and no fourth move is taken, and the run ends with the GAME OVER summary
\* for a finished game.
C16_GameEndsAfterThree ==
    /\ run_pc # "crashed"
    /\ run_moves <= 3
    /\ run_moves = 3 => ~state.game_active
    /\ run_pc = "done" =>
          /\ state.round_number = 4
          /\ run_summary = FinalComparison(state.user_score, state.bot_score)


-----------------------------------------------------------------------------
(* The final result reported by GameEngine.resolve_round *)

\* The final result the score comparison calls for
V1FinalText(user_score, bot_score) ==
    IF user_score > bot_score THEN "User Wins Game!"
    ELSE IF bot_score > user_score THEN "Bot Wins Game!"
    ELSE "Game Ends in Draw!"

\* The latest resolve_round call returned no final result (no key, or None)
V1NoFinalResult(ret) ==
    "final_result" \in DOMAIN ret => ret.final_result = "None"

\* C21: every resolve_round call that ends the game (valid, invalid or
\* repeated bomb) returns the final_result of the score comparison, and a
\* call that does not end the game returns no final result.
C21_FinalResultOnGameEnd ==
    [][v1_calls' = v1_calls + 1 =>
          IF ~engine.game_over /\ engine'.game_over
          THEN /\ "final_result" \in DOMAIN v1_result'
               /\ v1_result'.final_result =
                     V1FinalText(engine'.user_score, engine'.bot_score)
          ELSE V1NoFinalResult(v1_result')]_vars


-----------------------------------------------------------------------------
(* game_referee.py: start_game. The chat is created with
   tools=[engine.resolve_round] and automatic function calling enabled, so
   every chat.send_message may run resolve_round calls chosen by the referee
   model before it returns or raises. *)

\* resolve_round calls the SDK may run during one send_message
MaxToolCalls == 1

\* max_retries = 3
max_retries == 3

\* user_move arguments the referee model passes to resolve_round
ToolMoves == { rock, bomb, <<"l","i","z","a","r","d">> }

\* One automatic resolve_round call: its argument and the bot's random draws
ToolCalls == [user_move : ToolMoves, roll : BOOLEAN, choice : RandomMoves]

\* The function calls of one send_message, in order
ToolCallSeqs == UNION { [1..n -> ToolCalls] : n \in 0..MaxToolCalls }

\* How a send_message ends: a response, an exception whose text has "429" or
\* "RESOURCE_EXHAUSTED", or any other exception
SendOutcomes == {"ok", "rate_limit", "error"}

\* The engine and the call bookkeeping after the SDK has run the calls
RECURSIVE AutomaticCalls(_, _)
AutomaticCalls(acc, calls) ==
    IF calls = <<>> THEN acc
    ELSE LET c == Head(calls)
             r == resolve_round(acc.engine, c.user_move, c.roll, c.choice)
             played == "moves" \in DOMAIN r.ret
         IN  AutomaticCalls(
                 [ engine |-> r.self,
                   input  |-> c.user_move,
                   result |-> r.ret,
                   calls  |-> acc.calls + 1,
                   bombs  |-> [ user |-> acc.bombs.user +
                                   (IF played /\ r.ret.moves.User = bomb THEN 1 ELSE 0),
                                bot  |-> acc.bombs.bot +
                                   (IF played /\ r.ret.moves.Bot = bomb THEN 1 ELSE 0) ],
                   played |-> acc.played + (IF played THEN 1 ELSE 0) ],
                 Tail(calls))

\* chat.send_message(...): the engine side of one send
SendMessage(calls) ==
    LET a == AutomaticCalls([ engine |-> engine, input |-> v1_input, result |-> v1_result,
                              calls |-> v1_calls, bombs |-> v1_bombs, played |-> v1_played ],
                            calls)
    IN  /\ engine' = a.engine
        /\ v1_input' = a.input
        /\ v1_result' = a.result
        /\ v1_calls' = a.calls
        /\ v1_bombs' = a.bombs
        /\ v1_played' = a.played

\* engine = GameEngine(), before the connection loop
StartInit ==
    /\ program = "start_game"
    /\ state = GameStateDefault
    /\ v2_input = EmptyStr
    /\ v2_outcome = "none"
    /\ v2_calls = 0
    /\ v2_bombs = NoBombs
    /\ engine = GameEngineInit
    /\ v1_input = EmptyStr
    /\ v1_result = [status |-> "none"]
    /\ v1_calls = 0
    /\ v1_bombs = NoBombs
    /\ v2_played = 0
    /\ v1_played = 0
    /\ run_pc = "off"
    /\ run_moves = 0
    /\ run_changes = 0
    /\ run_summary = ""
    /\ sg_pc = "connect"
    /\ sg_attempt = 0
    /\ sg_sends = 0
    /\ sg_opening = "none"

StartFrame == UNCHANGED <<program, v2vars, v2_played, runvars>>

EngineFrame == UNCHANGED <<v1vars, v1_played>>

\* Lines 143-150: client.chats.create succeeds for one of models_to_try
StartConnect ==
    /\ sg_pc = "connect"
    /\ sg_pc' = "opening"
    /\ UNCHANGED <<sg_attempt, sg_sends, sg_opening>>
    /\ EngineFrame
    /\ StartFrame

\* Lines 143-170: every model fails, chat is None and start_game returns
StartConnectFails ==
    /\ sg_pc = "connect"
    /\ sg_pc' = "returned"
    /\ UNCHANGED <<sg_attempt, sg_sends, sg_opening>>
    /\ EngineFrame
    /\ StartFrame

\* Lines 177-199: one iteration of the opening retry loop
OpeningSend ==
    \E calls \in ToolCallSeqs, outcome \in SendOutcomes :
        /\ sg_pc = "opening"
        /\ sg_attempt < max_retries
        /\ SendMessage(calls)
        /\ sg_sends' = sg_sends + 1
        /\ sg_opening' = outcome
        /\ IF outcome = "ok"
           THEN /\ sg_pc' = IF engine'.game_over THEN "done" ELSE "loop"
                /\ UNCHANGED sg_attempt
           ELSE IF outcome = "rate_limit" /\ sg_attempt < max_retries - 1
           THEN /\ sg_pc' = "opening"
                /\ sg_attempt' = sg_attempt + 1
           ELSE /\ sg_pc' = "returned"
                /\ UNCHANGED sg_attempt
        /\ StartFrame

\* Lines 202-203: an empty input line
MoveEmpty ==
    /\ sg_pc = "loop"
    /\ UNCHANGED startvars
    /\ EngineFrame
    /\ StartFrame

\* Lines 205-222: a move is sent; on a rate-limit error the loop sleeps
\* before sending it again, on any other error it breaks
MoveSend ==
    \E calls \in ToolCallSeqs, outcome \in SendOutcomes :
        /\ sg_pc = "loop"
        /\ SendMessage(calls)
        /\ sg_pc' = IF outcome = "rate_limit" THEN "retry"
                    ELSE IF outcome = "error" \/ engine'.game_over THEN "done"
                    ELSE "loop"
        /\ UNCHANGED <<sg_attempt, sg_sends, sg_opening>>
        /\ StartFrame

\* Lines 213-219: the second send of the same move; any exception breaks
MoveRetry ==
    \E calls \in ToolCallSeqs, outcome \in SendOutcomes :
        /\ sg_pc = "retry"
        /\ SendMessage(calls)
        /\ sg_pc' = IF outcome # "ok" \/ engine'.game_over THEN "done" ELSE "loop"
        /\ UNCHANGED <<sg_attempt, sg_sends, sg_opening>>
        /\ StartFrame

StartNext ==
    \/ StartConnect
    \/ StartConnectFails
    \/ OpeningSend
    \/ MoveEmpty
    \/ MoveSend
    \/ MoveRetry

SpecStart == StartInit /\ [][StartNext]_vars

-----------------------------------------------------------------------------
(* The opening retry loop of start_game *)

\* An opening send is made in this step
OpeningSent == sg_sends' = sg_sends + 1

\* The move loop is entered in this step
LoopEntered == sg_pc = "opening" /\ sg_pc' = "loop"

\* C22: the opening message is sent at most max_retries times; a further
\* attempt follows only a rate-limit error; any other error, or the third
\* rate-limit failure, returns without playing; the move loop is entered only
\* after a send has succeeded, with the engine still in its initial state.
C22_OpeningRetry ==
    [][/\ sg_sends' <= max_retries
       /\ (OpeningSent /\ sg_sends > 0) => sg_opening = "rate_limit"
       /\ (OpeningSent /\ sg_opening' = "error") => sg_pc' = "returned"
       /\ (OpeningSent /\ sg_opening' = "rate_limit" /\ sg_sends' = max_retries)
             => sg_pc' = "returned"
       /\ LoopEntered =>
             /\ OpeningSent
             /\ sg_opening' = "ok"
             /\ engine' = GameEngineInit]_vars

=============================================================================
